---- MODULE Spec2Model ----
(***************************************************************************)
(* A model of src/conversions.py: the quantity parser / formatter of the   *)
(* recipe application (parse_fraction, parse_range, format_amount,         *)
(* to_weight, normalize_to_grams_per_cup, parse_volume_text).              *)
(*                                                                         *)
(* Representation.                                                         *)
(*  - A Python str is a sequence of characters; a character is a one-      *)
(*    element TLA+ string ("1", " ", "/").  A vulgar-fraction glyph is    *)
(*    the one character "<1/2>", "<3/8>", ...; the soft hyphen U+00AD is   *)
(*    the one character "SHY".                                             *)
(*  - A Python float is an exact rational [n, d] in lowest terms, d > 0.   *)
(*    A double differs from the rational it stands for by a relative       *)
(*    error of 2^-53, which decides an outcome only where a comparison or  *)
(*    a rounding falls exactly on its boundary (|frac - val| = 0.05, a     *)
(*    value exactly half way between two roundings).  A rational on such   *)
(*    a boundary stands for the doubles next to it, on either side:        *)
(*    format_amount(0.45) is the glyph for a half, format_amount(0.55) is  *)
(*    "0.6".  The variable ties holds one boolean per such decision of a   *)
(*    call, chosen in the initial state: FALSE is the result for the exact *)
(*    value, TRUE the result for a double that lies across the boundary.   *)
(*    Away from a boundary ties changes nothing.                           *)
(*  - The outcome of a call is a tagged record: Float(q), None (Python's   *)
(*    None), Str(s), or Raised(e) when the call ends in exception e.       *)
(*  - float() is modelled on the alphabet the inputs are drawn from:       *)
(*    sign, digits and "."; exponents, underscores, "inf" and "nan" cannot *)
(*    be written with it.  Whitespace is the space character.              *)
(*                                                                         *)
(* One call is one behaviour: the initial state holds the function and     *)
(* its arguments (pc = "call"), the function's action computes the result  *)
(* (pc = "done").  kept is the weight in grams of a measurement whose      *)
(* density is being applied back to it, None otherwise.                    *)
(*                                                                         *)
(* The first request of the application (ensure_db of src/app.py, with      *)
(* seed_recipes of src/database.py and seed of src/seed_king_arthur.py) is *)
(* modelled with one process per request thread: db holds the committed    *)
(* rows of the SQLite file, writer the connection holding its write lock,  *)
(* threads the position, loop index and uncommitted rows of each thread,   *)
(* db_initialized the attribute app._db_initialized.  schema.sql is not    *)
(* part of the sources read here: unique_name says whether the ingredient  *)
(* table rejects a second row of the same name, and both are explored.     *)
(* The recipe table takes any title: recipe_new (src/app.py:241) inserts   *)
(* the title of a form with no test and no handler for a refusal.          *)
(*                                                                         *)
(* The shopping list (api_shopping_list of src/app.py) is one call like    *)
(* the conversions: args holds the plan, a sequence of recipe id and       *)
(* quantity in the order of the JSON object, and the unit mode; db holds   *)
(* the rows the handler reads.                                             *)
(***************************************************************************)
EXTENDS Integers, Sequences, FiniteSets, TLC

VARIABLES pc, fn, args, ties, result, kept,
          db, writer, threads, db_initialized, unique_name

\* the call in progress
callVars == <<pc, fn, args, ties, result, kept>>

\* the database and the request threads of the application
serverVars == <<db, writer, threads, db_initialized, unique_name>>

vars == <<pc, fn, args, ties, result, kept,
          db, writer, threads, db_initialized, unique_name>>

(***************************************************************************)
(* Rationals                                                               *)
(***************************************************************************)
RECURSIVE Gcd(_, _)
Gcd(a, b) == IF b = 0 THEN a ELSE Gcd(b, a % b)

Abs(x) == IF x < 0 THEN -x ELSE x

\* n/d in lowest terms; d > 0
Rat(n, d) == LET g == Gcd(Abs(n), d) IN [n |-> n \div g, d |-> d \div g]

RInt(k) == [n |-> k, d |-> 1]
RAdd(a, b) == Rat(a.n * b.d + b.n * a.d, a.d * b.d)
RSub(a, b) == Rat(a.n * b.d - b.n * a.d, a.d * b.d)
RMul(a, b) == Rat(a.n * b.n, a.d * b.d)
\* a / b for b # 0
RDiv(a, b) == IF b.n > 0 THEN Rat(a.n * b.d, a.d * b.n)
                         ELSE Rat(-(a.n * b.d), a.d * (-b.n))
RLt(a, b) == a.n * b.d < b.n * a.d
RLe(a, b) == a.n * b.d <= b.n * a.d
RAbs(a) == [n |-> Abs(a.n), d |-> a.d]
RFloor(a) == a.n \div a.d
\* Python int(x): truncation towards zero
RTrunc(a) == IF a.n >= 0 THEN a.n \div a.d ELSE -((-a.n) \div a.d)
RIsInt(a) == a.d = 1

(***************************************************************************)
(* Outcomes of a call                                                      *)
(***************************************************************************)
Float(q) == [tag |-> "float", val |-> q]
None == [tag |-> "None"]
Str(s) == [tag |-> "str", s |-> s]
Raised(e) == [tag |-> "raised", exc |-> e]
\* an int read from or written to the database
RowId(k) == [tag |-> "int", val |-> k]
Pending == [tag |-> "pending"]

IsFloat(r) == r.tag = "float"
IsRaised(r) == r.tag = "raised"

(***************************************************************************)
(* Characters and strings                                                  *)
(***************************************************************************)
Digits == <<"0", "1", "2", "3", "4", "5", "6", "7", "8", "9">>
DIGIT == {Digits[i] : i \in 1..10}
SPACE == {" "}
LowerLetters ==
    {"a", "b", "c", "d", "e", "f", "g", "h", "i", "j", "k", "l", "m",
     "n", "o", "p", "q", "r", "s", "t", "u", "v", "w", "x", "y", "z"}
UpperPairs ==
    {<<"A", "a">>, <<"B", "b">>, <<"C", "c">>, <<"D", "d">>, <<"E", "e">>,
     <<"F", "f">>, <<"G", "g">>, <<"H", "h">>, <<"I", "i">>, <<"J", "j">>,
     <<"K", "k">>, <<"L", "l">>, <<"M", "m">>, <<"N", "n">>, <<"O", "o">>,
     <<"P", "p">>, <<"Q", "q">>, <<"R", "r">>, <<"S", "s">>, <<"T", "t">>,
     <<"U", "u">>, <<"V", "v">>, <<"W", "w">>, <<"X", "x">>, <<"Y", "y">>,
     <<"Z", "z">>}
UpperLetters == {p[1] : p \in UpperPairs}
Glyphs == {"<1/4>", "<1/2>", "<3/4>", "<1/3>", "<2/3>",
           "<1/8>", "<3/8>", "<5/8>", "<7/8>"}
\* what the regular expression class \w matches: letters, digits, "_" and
\* every character str.isalnum() accepts, the fraction glyphs among them
WORD == DIGIT \cup LowerLetters \cup UpperLetters \cup {"_"} \cup Glyphs

DigitVal(c) == CHOOSE v \in 0..9 : Digits[v + 1] = c

\* a local variable: v is computed once and body sees its value
Assign(v, body(_)) == CHOOSE r \in {body(x) : x \in {v}} : TRUE

\* str.lower()
LowerOf == [c \in UpperLetters |-> (CHOOSE p \in UpperPairs : p[1] = c)[2]]
LowerChar(c) == IF c \in UpperLetters THEN LowerOf[c] ELSE c
Lower(s) == [i \in 1..Len(s) |-> LowerChar(s[i])]

Contains(s, c) == \E i \in 1..Len(s) : s[i] = c

\* s.replace(c, "")
Remove(s, c) == SelectSeq(s, LAMBDA x : x # c)

\* s[i..j] (1-based, inclusive), empty when i > j
Slice(s, i, j) == IF i > j THEN <<>> ELSE SubSeq(s, i, j)

\* the number of characters of s from position i on that are in class C
RECURSIVE Span(_, _, _)
Span(s, i, C) == IF i <= Len(s) /\ s[i] \in C THEN 1 + Span(s, i + 1, C) ELSE 0

\* the number of trailing characters of s in class C
RECURSIVE SpanBack(_, _)
SpanBack(s, C) == IF Len(s) > 0 /\ s[Len(s)] \in C
                  THEN 1 + SpanBack(SubSeq(s, 1, Len(s) - 1), C)
                  ELSE 0

\* str.strip()
Strip(s) == LET a == Span(s, 1, SPACE)
            IN  IF a = Len(s) THEN <<>>
                ELSE Slice(s, a + 1, Len(s) - SpanBack(s, SPACE))

\* s has the characters of w at positions i .. i + Len(w) - 1
HasAt(s, i, w) == /\ i >= 1
                  /\ i + Len(w) - 1 <= Len(s)
                  /\ \A k \in 1..Len(w) : s[i + k - 1] = w[k]

\* the same under re.IGNORECASE, for a lower-case w
HasAtIgnoreCase(s, i, w) == /\ i >= 1
                            /\ i + Len(w) - 1 <= Len(s)
                            /\ \A k \in 1..Len(w) : LowerChar(s[i + k - 1]) = w[k]

RECURSIVE Pow10(_)
Pow10(k) == IF k = 0 THEN 1 ELSE 10 * Pow10(k - 1)

\* int(ds) of a non-empty sequence of digits
RECURSIVE IntOf(_)
IntOf(ds) == IF Len(ds) = 0 THEN 0
             ELSE 10 * IntOf(SubSeq(ds, 1, Len(ds) - 1)) + DigitVal(ds[Len(ds)])

\* float(s): surrounding whitespace is stripped; an optional sign, then
\* digits with at most one ".", at least one digit.  Anything else raises
\* ValueError.
FloatOf(s) ==
    LET t    == Strip(s)
        sgn  == IF Len(t) > 0 /\ t[1] \in {"+", "-"} THEN 1 ELSE 0
        body == Slice(t, sgn + 1, Len(t))
        a    == Span(body, 1, DIGIT)
        dot  == IF a < Len(body) /\ body[a + 1] = "." THEN 1 ELSE 0
        b    == Span(body, a + dot + 1, DIGIT)
        mag  == Rat(IntOf(Slice(body, 1, a)) * Pow10(b)
                      + IntOf(Slice(body, a + dot + 1, a + dot + b)),
                    Pow10(b))
    IN  IF a + dot + b = Len(body) /\ a + b > 0
        THEN Float(IF sgn = 1 /\ t[1] = "-" THEN RSub(RInt(0), mag) ELSE mag)
        ELSE Raised("ValueError")

(***************************************************************************)
(* parse_fraction                                                          *)
(***************************************************************************)
\* the dict, in insertion order (the order the loop visits it)
UNICODE_FRACTIONS ==
    << <<"<1/4>", Rat(1, 4)>>, <<"<1/2>", Rat(1, 2)>>, <<"<3/4>", Rat(3, 4)>>,
       <<"<1/3>", Rat(1, 3)>>, <<"<2/3>", Rat(2, 3)>>,
       <<"<1/8>", Rat(1, 8)>>, <<"<3/8>", Rat(3, 8)>>, <<"<5/8>", Rat(5, 8)>>,
       <<"<7/8>", Rat(7, 8)>> >>

\* re.match(r"^(\d+)\s+(\d+)/(\d+)$", t): the three groups, or no match
MatchMixed(t) ==
    LET a  == Span(t, 1, DIGIT)
        b  == Span(t, a + 1, SPACE)
        c  == Span(t, a + b + 1, DIGIT)
        sl == a + b + c + 1
        e  == Span(t, sl + 1, DIGIT)
    IN  IF a > 0 /\ b > 0 /\ c > 0 /\ HasAt(t, sl, <<"/">>) /\ e > 0
           /\ sl + e = Len(t)
        THEN [ok |-> TRUE, g1 |-> Slice(t, 1, a),
              g2 |-> Slice(t, a + b + 1, a + b + c),
              g3 |-> Slice(t, sl + 1, sl + e)]
        ELSE [ok |-> FALSE]

\* re.match(r"^(\d+)/(\d+)$", t)
MatchSimple(t) ==
    LET a == Span(t, 1, DIGIT)
        e == Span(t, a + 2, DIGIT)
    IN  IF a > 0 /\ HasAt(t, a + 1, <<"/">>) /\ e > 0 /\ a + 1 + e = Len(t)
        THEN [ok |-> TRUE, g1 |-> Slice(t, 1, a), g2 |-> Slice(t, a + 2, a + 1 + e)]
        ELSE [ok |-> FALSE]

\* int / int: true division, ZeroDivisionError on a zero divisor
TrueDiv(num, den) == IF den = 0 THEN Raised("ZeroDivisionError")
                     ELSE Float(Rat(num, den))

\* the body of the loop over UNICODE_FRACTIONS for the first glyph found
GlyphBranch(t, i) ==
    LET rest == Strip(Remove(t, UNICODE_FRACTIONS[i][1]))
        base == IF rest # <<>> THEN FloatOf(rest) ELSE Float(RInt(0))
    IN  IF IsRaised(base) THEN base
        ELSE Float(RAdd(base.val, UNICODE_FRACTIONS[i][2]))

\* the "4 1/4" branch
MixedBranch(m) ==
    LET q == TrueDiv(IntOf(m.g2), IntOf(m.g3))
    IN  IF IsRaised(q) THEN q ELSE Float(RAdd(RInt(IntOf(m.g1)), q.val))

\* the plain number branch: try float(text), except ValueError: None
PlainBranch(t) == LET f == FloatOf(t) IN IF IsRaised(f) THEN None ELSE f

parse_fraction(text) ==
    LET t    == Strip(text)
        hits == {i \in 1..Len(UNICODE_FRACTIONS) : Contains(t, UNICODE_FRACTIONS[i][1])}
        mm   == MatchMixed(t)
        ms   == MatchSimple(t)
    IN  IF hits # {}
        THEN GlyphBranch(t, CHOOSE i \in hits : \A j \in hits : i <= j)
        ELSE IF mm.ok THEN MixedBranch(mm)
        ELSE IF ms.ok THEN TrueDiv(IntOf(ms.g1), IntOf(ms.g2))
        ELSE PlainBranch(t)

(***************************************************************************)
(* parse_range                                                             *)
(***************************************************************************)
\* the character class [\d./\s]
RANGE_CLASS == DIGIT \cup {".", "/"} \cup SPACE

\* re.match(r"^([\d./\s]+)\s+to\s+([\d./\s]+)$", t).  Group 1 is greedy: it
\* takes the whole run of class characters and gives back its last one,
\* which must be whitespace, to \s+; "to" must follow.  \s+ after "to" takes
\* all the whitespace, and group 2 is the rest, to the end of the text.
MatchRange(t) ==
    Assign(Span(t, 1, RANGE_CLASS), LAMBDA k :
    Assign(Span(t, k + 3, SPACE), LAMBDA w :
    Assign(k + 3 + w, LAMBDA st :
    Assign(Span(t, st, RANGE_CLASS), LAMBDA e :
        IF k >= 2 /\ t[k] \in SPACE /\ HasAt(t, k + 1, <<"t", "o">>)
           /\ w >= 1 /\ e >= 1 /\ st + e - 1 = Len(t)
        THEN [ok |-> TRUE, g1 |-> Slice(t, 1, k - 1), g2 |-> Slice(t, st, Len(t))]
        ELSE [ok |-> FALSE]))))

\* (lo + hi) / 2
Mean(lo, hi) == RDiv(RAdd(lo, hi), RInt(2))

\* the outcome once the pattern has matched: the first side that raises ends
\* the call
RangeOfSides(t, lo, hi) ==
    IF IsRaised(lo) THEN lo
    ELSE IF IsRaised(hi) THEN hi
    ELSE IF lo # None /\ hi # None THEN Float(Mean(lo.val, hi.val))
    ELSE parse_fraction(t)

parse_range(text) ==
    Assign(Strip(text), LAMBDA t :
    Assign(MatchRange(t), LAMBDA m :
        IF m.ok
        THEN Assign(parse_fraction(m.g1), LAMBDA lo :
             Assign(parse_fraction(m.g2), LAMBDA hi : RangeOfSides(t, lo, hi)))
        ELSE parse_fraction(t)))

(***************************************************************************)
(* format_amount                                                           *)
(***************************************************************************)
DISPLAY_FRACTIONS ==
    << <<Rat(1, 4), "<1/4>">>, <<Rat(1, 3), "<1/3>">>, <<Rat(1, 2), "<1/2>">>,
       <<Rat(2, 3), "<2/3>">>, <<Rat(3, 4), "<3/4>">>,
       <<Rat(1, 8), "<1/8>">>, <<Rat(3, 8), "<3/8>">>, <<Rat(5, 8), "<5/8>">>,
       <<Rat(7, 8), "<7/8>">> >>

\* the tolerance 0.05 of the comparison abs(frac - val) < 0.05
Tolerance == Rat(5, 100)

\* str(k) of an int
RECURSIVE StrOfNat(_)
StrOfNat(k) == IF k < 10 THEN <<Digits[k + 1]>>
               ELSE StrOfNat(k \div 10) \o <<Digits[(k % 10) + 1]>>
StrOfInt(k) == IF k < 0 THEN <<"-">> \o StrOfNat(-k) ELSE StrOfNat(k)

\* round(x): the nearest integer, a value exactly half way going to the even
\* neighbour; off marks a double that has drifted off the half-way point to
\* the other side
Round(x, off) ==
    LET lo  == RFloor(x)
        rem == RSub(x, RInt(lo))
        ev  == IF lo % 2 = 0 THEN lo ELSE lo + 1
    IN  IF RLt(rem, Rat(1, 2)) THEN lo
        ELSE IF RLt(Rat(1, 2), rem) THEN lo + 1
        ELSE IF off THEN 2 * lo + 1 - ev ELSE ev

\* abs(frac - val) < 0.05; off marks a double difference that falls below
\* 0.05 where the exact difference equals it
WithinTolerance(frac, val, off) ==
    LET diff == RAbs(RSub(frac, val))
    IN  RLt(diff, Tolerance) \/ (diff = Tolerance /\ off)

\* f"{n:.1f}" for n >= 0: n rounded to tenths, one digit after the point
FormatOneDecimal(n, off) ==
    LET tenths == Round(RMul(n, RInt(10)), off)
    IN  StrOfNat(tenths \div 10) \o <<".">> \o <<Digits[(tenths % 10) + 1]>>

\* the entries of DISPLAY_FRACTIONS within tolerance of frac
Matching(frac, off) ==
    {i \in 1..Len(DISPLAY_FRACTIONS) :
        WithinTolerance(frac, DISPLAY_FRACTIONS[i][1], off)}

\* f"{base} {symbol}" if base else symbol
GlyphText(base, symbol) ==
    IF base # 0 THEN StrOfInt(base) \o <<" ", symbol>> ELSE <<symbol>>

\* the fallback: f"{n:.1f}" if n % 1 != 0 else str(int(n))
DecimalFallback(n, off) ==
    IF ~RIsInt(n) THEN FormatOneDecimal(n, off) ELSE StrOfInt(RTrunc(n))

\* format_amount(n) for n None or a float >= 0; offs[1] is the drift of the
\* tolerance comparison, offs[2] that of the one-decimal rounding
format_amount(n, offs) ==
    IF n = None THEN Str(<<>>)
    ELSE IF RIsInt(n.val) THEN Str(StrOfInt(RTrunc(n.val)))
    ELSE LET base == RTrunc(n.val)
             frac == RSub(n.val, RInt(base))
             hits == Matching(frac, offs[1])
         IN  IF hits # {}
             THEN Str(GlyphText(base,
                    DISPLAY_FRACTIONS[CHOOSE i \in hits : \A j \in hits : i <= j][2]))
             ELSE Str(DecimalFallback(n.val, offs[2]))

(***************************************************************************)
(* to_weight and normalize_to_grams_per_cup                                *)
(***************************************************************************)
cup == <<"c", "u", "p">>
cups == <<"c", "u", "p", "s">>
tbsp == <<"t", "b", "s", "p">>
tablespoon == <<"t", "a", "b", "l", "e", "s", "p", "o", "o", "n">>
tablespoons == tablespoon \o <<"s">>
tsp == <<"t", "s", "p">>
teaspoon == <<"t", "e", "a", "s", "p", "o", "o", "n">>
teaspoons == teaspoon \o <<"s">>

\* volume unit -> cups multiplier
TO_CUPS ==
    {<<cup, Rat(1, 1)>>, <<cups, Rat(1, 1)>>,
     <<tbsp, Rat(1, 16)>>, <<tablespoon, Rat(1, 16)>>, <<tablespoons, Rat(1, 16)>>,
     <<tsp, Rat(1, 48)>>, <<teaspoon, Rat(1, 48)>>, <<teaspoons, Rat(1, 48)>>}

\* TO_CUPS.get(key): Float(factor), or None
ToCupsGet(key) ==
    IF \E e \in TO_CUPS : e[1] = key
    THEN Float((CHOOSE e \in TO_CUPS : e[1] = key)[2])
    ELSE None

\* the unit taken as written, its case kept
UnitAsWritten(unit) == IF unit # None /\ unit.s # <<>> THEN unit.s ELSE <<>>

\* unit.lower() if unit else "": None and "" are both falsy
UnitLower(unit) == IF unit # None /\ unit.s # <<>> THEN Lower(unit.s) ELSE <<>>

to_weight(amount, unit, grams_per_cup, off) ==
    IF amount = None \/ grams_per_cup = None THEN None
    ELSE LET factor == ToCupsGet(UnitLower(unit))
         IN  IF factor = None THEN None
             ELSE Float(RInt(Round(RMul(RMul(amount.val, factor.val),
                                        grams_per_cup.val), off)))

\* round(x): no decimal place kept
RoundNoDecimal(x, off) == RInt(Round(x, off))

\* round(x, 1)
RoundOneDecimal(x, off) == Rat(Round(RMul(x, RInt(10)), off), 10)

normalize_to_grams_per_cup(volume_amount, volume_unit, grams, off) ==
    IF volume_amount = None \/ grams = None THEN None
    ELSE LET factor == ToCupsGet(UnitLower(volume_unit))
         IN  IF factor = None THEN None
             ELSE LET cupsEq == RMul(volume_amount.val, factor.val)
                  IN  IF cupsEq.n = 0 THEN None
                      ELSE Float(RoundOneDecimal(RDiv(grams.val, cupsEq), off))

(***************************************************************************)
(* parse_volume_text                                                       *)
(***************************************************************************)
SHY == "SHY"

Pair(amt, unit) == [tag |-> "pair", amt |-> amt, unit |-> unit]

\* the first position from i on that holds c, Len(s) + 1 if there is none
RECURSIVE Find(_, _, _)
Find(s, i, c) == IF i > Len(s) \/ s[i] = c THEN i ELSE Find(s, i + 1, c)

\* the pattern \(([^)]+cup[^)]*)\) matches at p: "(" at p, a ")" after it,
\* and between them "cup" in any case with at least one character before
ParenAt(t, p) ==
    LET q == Find(t, p + 1, ")")
    IN  /\ t[p] = "("
        /\ q <= Len(t)
        /\ \E c \in (p + 2)..(q - 3) : HasAtIgnoreCase(t, c, cup)

\* re.search(r"\(([^)]+cup[^)]*)\)", t, re.IGNORECASE): the leftmost match
SearchParen(t) ==
    LET ps == {p \in 1..Len(t) : ParenAt(t, p)}
        p  == CHOOSE x \in ps : \A y \in ps : x <= y
    IN  IF ps # {} THEN [ok |-> TRUE, g1 |-> Slice(t, p + 1, Find(t, p + 1, ")") - 1)]
        ELSE [ok |-> FALSE]

\* re.match(r"^([\d\s/]+)\s*(cup)", inner, re.IGNORECASE)
AMOUNT_CLASS == DIGIT \cup SPACE \cup {"/"}
MatchAmount(inner) ==
    LET a == Span(inner, 1, AMOUNT_CLASS)
    IN  IF a >= 1 /\ HasAtIgnoreCase(inner, a + 1, cup)
        THEN [ok |-> TRUE, g1 |-> Slice(inner, 1, a)]
        ELSE [ok |-> FALSE]

\* re.match(r"^([\d\s/.]+)\s+(\w+)", t): group 1 is the longest prefix of the
\* run of class characters that is followed by whitespace and then a word
\* character; group 2 is the run of word characters there
VOLUME_CLASS == DIGIT \cup SPACE \cup {"/", "."}
MatchStandard(t) ==
    LET k  == Span(t, 1, VOLUME_CLASS)
        js == {j \in 1..(k - 1) :
                 /\ t[j + 1] \in SPACE
                 /\ LET u == j + 1 + Span(t, j + 1, SPACE)
                    IN  u <= Len(t) /\ t[u] \in WORD}
        j  == CHOOSE x \in js : \A y \in js : y <= x
        u  == j + 1 + Span(t, j + 1, SPACE)
    IN  IF js # {}
        THEN [ok |-> TRUE, g1 |-> Slice(t, 1, j),
              g2 |-> Slice(t, u, u + Span(t, u, WORD) - 1)]
        ELSE [ok |-> FALSE]

\* the normalisation of unit names
NormalizeUnit(unit) ==
    IF unit \in {tablespoon, tablespoons} THEN tablespoons
    ELSE IF unit \in {teaspoon, teaspoons} THEN teaspoons
    ELSE IF unit \in {cup, cups} THEN cup
    ELSE unit

\* the standard branch: "1 cup", "2 tablespoons", "1/4 cup"
StandardBranch(m) ==
    LET amt == parse_fraction(m.g1)
    IN  IF IsRaised(amt) THEN amt
        ELSE Pair(amt, Str(NormalizeUnit(Lower(m.g2))))

parse_volume_text(text) ==
    LET t    == Strip(Remove(text, SHY))
        pm   == SearchParen(t)
        am   == MatchAmount(Strip(pm.g1))
        pamt == parse_fraction(am.g1)
        sm   == MatchStandard(t)
    IN  IF pm.ok /\ am.ok /\ IsRaised(pamt) THEN pamt
        ELSE IF pm.ok /\ am.ok /\ pamt # None THEN Pair(pamt, Str(cup))
        ELSE IF sm.ok THEN StandardBranch(sm)
        ELSE Pair(None, None)

(***************************************************************************)
(* Inputs of the text functions                                            *)
(***************************************************************************)
\* all sequences over A of length at most k
SeqsUpTo(A, k) == UNION {[1..n -> A] : n \in 0..k}

MaxLen == 5
FractionAlphabet ==
    {"0", "1", "2", " ", "/", ".", "-", "<1/2>", "<3/4>", "a"}
FractionTexts == SeqsUpTo(FractionAlphabet, MaxLen)

\* the concatenation of a sequence of strings
RECURSIVE Concat(_)
Concat(ss) == IF Len(ss) = 0 THEN <<>> ELSE Head(ss) \o Concat(Tail(ss))

\* all texts made of at most k pieces of T
TextsOf(T, k) == {Concat(ss) : ss \in SeqsUpTo(T, k)}

MaxPieces == 5
RangePieces == {<<"1">>, <<"3">>, <<"1", "/", "2">>, <<"1", "/", "0">>, <<" ">>,
                <<"t", "o">>, <<"a">>, <<".">>, <<"-">>, <<"<1/2>">>}
RangeTexts == TextsOf(RangePieces, MaxPieces)

\* the inputs of format_amount: None, the hundredths up to MaxHundredths, and
\* n + v for the whole numbers n up to MaxWhole and each display fraction v
MaxHundredths == 300
MaxWhole == 3
FormatInputs ==
    {None}
    \cup {Float(Rat(k, 100)) : k \in 0..MaxHundredths}
    \cup {Float(RAdd(RInt(n), DISPLAY_FRACTIONS[i][1])) :
            n \in 0..MaxWhole, i \in 1..Len(DISPLAY_FRACTIONS)}

\* amounts in quarters and thirds up to MaxVolume, weights in whole grams
MaxVolume == 11
MaxGrams == 12
Amounts ==
    {None}
    \cup {Float(Rat(k, 4)) : k \in 0..(4 * MaxVolume)}
    \cup {Float(Rat(k, 3)) : k \in 0..(3 * MaxVolume)}
Units ==
    {None, Str(<<>>), Str(cup), Str(<<"C", "u", "p", "s">>), Str(cups),
     Str(tbsp), Str(<<"T", "B", "S", "P">>), Str(tablespoon), Str(tablespoons),
     Str(tsp), Str(teaspoon), Str(teaspoons), Str(<<"g">>),
     Str(<<"u", "n", "k", "n", "o", "w", "n", "_", "u", "n", "i", "t">>)}
Densities ==
    {None, Float(RInt(0)), Float(Rat(1, 2)), Float(RInt(1)), Float(Rat(9, 2)),
     Float(RInt(100)), Float(RInt(120)), Float(RInt(-100))}
Grams == {None} \cup {Float(RInt(g)) : g \in 0..MaxGrams}

\* the texts of parse_volume_text: an amount, spaces, a unit word and
\* possibly a parenthetical clause
MaxSpaces == 1
Spaces(k) == [i \in 1..k |-> " "]
LeadTexts ==
    {<<>>, <<"8">>, <<"1", "/", "2">>, <<"1", " ", "1", "/", "2">>,
     <<"0", ".", "5">>, <<".">>, <<"1", " ", "2">>, <<"1", "/", "0">>,
     <<"<1/2>">>}
UnitWords ==
    {<<>>, cup, <<"C", "u", "p", "s">>, tablespoons,
     <<"T", "a", "b", "l", "e", SHY, "s", "p", "o", "o", "n">>,
     <<"t", "e", "a", SHY, "s", "p", "o", "o", "n", "s">>, <<"g">>}
ParenAmounts ==
    {<<>>, <<"1", "/", "2">>, <<"0", ".", "5">>, <<"1">>, <<"1", " ", "2">>,
     <<"1", "/", "0">>, <<"<1/2>">>, <<"a", "b", "o", "u", "t", " ", "1">>}
ParenWords == {cup, <<"C", "U", "P">>, cups, <<"g">>}
ParenTexts ==
    {<<>>}
    \cup {<<" ", "(">> \o a \o Spaces(k) \o w \o <<")">> :
            a \in ParenAmounts, k \in 0..MaxSpaces, w \in ParenWords}
VolumeTexts ==
    {l \o Spaces(k) \o u \o p :
        l \in LeadTexts, k \in 0..MaxSpaces, u \in UnitWords, p \in ParenTexts}
    \cup {<<"8", " ", "(", "2", ")", " ", "(", "1", " ", "c", "u", "p", ")">>,
          <<"(", "(", "1", " ", "c", "u", "p", ")">>,
          <<"8", " ", "g", " ", "(", "1", " ", "c", "u", "p">>}

(***************************************************************************)
(* Calls                                                                   *)
(***************************************************************************)
NoTies == <<FALSE, FALSE>>

\* the request threads
MaxThreads == 2
Threads == 1..MaxThreads
NoThread == 0

\* the four tables, each a sequence of rows in rowid order
EmptyDb ==
    [recipe |-> <<>>, recipe_step |-> <<>>, recipe_ingredient |-> <<>>,
     ingredient |-> <<>>]

\* a thread about to handle a request
AtRequest == [at |-> "request", i |-> 0, txn |-> EmptyDb]

\* the application as started: an empty database file, nothing initialized
NoServer ==
    /\ db = EmptyDb
    /\ writer = NoThread
    /\ threads = [t \in Threads |-> AtRequest]
    /\ db_initialized = FALSE
    /\ unique_name = FALSE

InitFraction ==
    /\ pc = "call"
    /\ fn = "parse_fraction"
    /\ args \in {<<t>> : t \in FractionTexts}
    /\ ties = NoTies
    /\ result = Pending
    /\ kept = None
    /\ NoServer

ParseFractionCall ==
    /\ pc = "call"
    /\ fn = "parse_fraction"
    /\ result' = parse_fraction(args[1])
    /\ pc' = "done"
    /\ UNCHANGED <<fn, args, ties, kept>>
    /\ UNCHANGED serverVars

NextFraction == ParseFractionCall

SpecFraction == InitFraction /\ [][NextFraction]_vars

InitRange ==
    /\ pc = "call"
    /\ fn = "parse_range"
    /\ args \in {<<t>> : t \in RangeTexts}
    /\ ties = NoTies
    /\ result = Pending
    /\ kept = None
    /\ NoServer

ParseRangeCall ==
    /\ pc = "call"
    /\ fn = "parse_range"
    /\ result' = parse_range(args[1])
    /\ pc' = "done"
    /\ UNCHANGED <<fn, args, ties, kept>>
    /\ UNCHANGED serverVars

NextRange == ParseRangeCall

SpecRange == InitRange /\ [][NextRange]_vars

InitFormat ==
    /\ pc = "call"
    /\ fn = "format_amount"
    /\ args \in {<<n>> : n \in FormatInputs}
    /\ ties \in BOOLEAN \X BOOLEAN
    /\ result = Pending
    /\ kept = None
    /\ NoServer

FormatAmountCall ==
    /\ pc = "call"
    /\ fn = "format_amount"
    /\ result' = format_amount(args[1], ties)
    /\ pc' = "done"
    /\ UNCHANGED <<fn, args, ties, kept>>
    /\ UNCHANGED serverVars

NextFormat == FormatAmountCall

SpecFormat == InitFormat /\ [][NextFormat]_vars

InitWeight ==
    /\ pc = "call"
    /\ \/ /\ fn = "to_weight"
          /\ args \in Amounts \X Units \X Densities
          /\ ties \in {FALSE} \X BOOLEAN
       \/ /\ fn = "normalize_to_grams_per_cup"
          /\ args \in Amounts \X Units \X Grams
          /\ ties \in BOOLEAN \X BOOLEAN
    /\ result = Pending
    /\ kept = None
    /\ NoServer

\* ties[2] is the drift of the rounding to whole grams
ToWeightCall ==
    /\ pc = "call"
    /\ fn = "to_weight"
    /\ result' = to_weight(args[1], args[2], args[3], ties[2])
    /\ pc' = "done"
    /\ UNCHANGED <<fn, args, ties, kept>>
    /\ UNCHANGED serverVars

\* ties[1] is the drift of the rounding to one decimal place
NormalizeCall ==
    /\ pc = "call"
    /\ fn = "normalize_to_grams_per_cup"
    /\ result' = normalize_to_grams_per_cup(args[1], args[2], args[3], ties[1])
    /\ pc' = "done"
    /\ UNCHANGED <<fn, args, ties, kept>>
    /\ UNCHANGED serverVars

\* the density of a measurement is applied back to the same volume:
\* to_weight(volume_amount, volume_unit, normalize_to_grams_per_cup(...))
ApplyDensity ==
    /\ pc = "done"
    /\ fn = "normalize_to_grams_per_cup"
    /\ fn' = "to_weight"
    /\ args' = <<args[1], args[2], result>>
    /\ kept' = args[3]
    /\ result' = Pending
    /\ pc' = "call"
    /\ UNCHANGED ties
    /\ UNCHANGED serverVars

NextWeight == ToWeightCall \/ NormalizeCall \/ ApplyDensity

SpecWeight == InitWeight /\ [][NextWeight]_vars

InitVolume ==
    /\ pc = "call"
    /\ fn = "parse_volume_text"
    /\ args \in {<<t>> : t \in VolumeTexts}
    /\ ties = NoTies
    /\ result = Pending
    /\ kept = None
    /\ NoServer

ParseVolumeTextCall ==
    /\ pc = "call"
    /\ fn = "parse_volume_text"
    /\ result' = parse_volume_text(args[1])
    /\ pc' = "done"
    /\ UNCHANGED <<fn, args, ties, kept>>
    /\ UNCHANGED serverVars

NextVolume == ParseVolumeTextCall

SpecVolume == InitVolume /\ [][NextVolume]_vars

(***************************************************************************)
(* The first request: ensure_db, seed_recipes, seed                        *)
(***************************************************************************)
\* names of ingredients
flour == <<"f", "l", "o", "u", "r">>
Flour == <<"F", "l", "o", "u", "r">>
salt == <<"s", "a", "l", "t">>
egg == <<"e", "g", "g">>

\* the values of the column unit_type
volume == <<"v", "o", "l", "u", "m", "e">>
count == <<"c", "o", "u", "n", "t">>

\* a row of the ingredient table: the columns the application reads back
IngredientRow(name, grams_per_cup, unit_type, avg_weight_grams) ==
    [name |-> name, grams_per_cup |-> grams_per_cup, unit_type |-> unit_type,
     avg_weight_grams |-> avg_weight_grams]

\* recipes.json: the recipes seed_recipes inserts, in file order
SeedRecipes ==
    << [title |-> "bread", steps |-> 2,
        ingredients |-> << [name |-> flour, amount |-> RInt(3), unit |-> cup] >>],
       [title |-> "soup", steps |-> 1,
        ingredients |-> << [name |-> salt, amount |-> RInt(1), unit |-> tsp] >>] >>

\* the rows seed inserts for what parse_html yields from the chart:
\* unit_type is 'volume', avg_weight_grams is not set
SeedChart ==
    << IngredientRow(flour, Float(RInt(120)), Str(volume), None),
       IngredientRow(salt, Float(RInt(288)), Str(volume), None) >>

\* what the connection of thread t reads: the committed rows, then its own
\* uncommitted ones
Visible(t) ==
    [tb \in DOMAIN EmptyDb |-> db[tb] \o threads[t].txn[tb]]

\* get_ingredient_by_name(db, name)["id"], or None: the first row whose name
\* is name, compared without case (COLLATE NOCASE)
IngredientId(rows, name) ==
    LET same == {k \in 1..Len(rows) : Lower(rows[k].name) = Lower(name)}
    IN  IF same = {} THEN None ELSE RowId(CHOOSE k \in same : \A j \in same : k <= j)

\* the rows one pass of the loop of seed_recipes adds for recipe r, given
\* the rows the connection sees
RecipeRows(r, seen) ==
    LET recipe_id == Len(seen.recipe) + 1
    IN  [recipe |-> << [id |-> recipe_id, title |-> r.title] >>,
         recipe_step |->
            [k \in 1..r.steps |-> [recipe_id |-> recipe_id, step_number |-> k]],
         recipe_ingredient |->
            [k \in 1..Len(r.ingredients) |->
                [recipe_id |-> recipe_id,
                 ingredient_id |-> IngredientId(seen.ingredient, r.ingredients[k].name),
                 name |-> r.ingredients[k].name,
                 amount |-> r.ingredients[k].amount,
                 unit |-> r.ingredients[k].unit,
                 sort_order |-> k - 1]],
         ingredient |-> <<>>]

\* thread t moves to at, with loop index i and uncommitted rows txn
Goto(t, at, i, txn) ==
    threads' = [threads EXCEPT ![t] = [at |-> at, i |-> i, txn |-> txn]]

\* another connection holds the write lock of the database file
LockedOut(t) == writer \notin {NoThread, t}

\* db.commit(): the uncommitted rows become visible, the lock is released
Commit(t) ==
    /\ db' = Visible(t)
    /\ writer' = IF writer = t THEN NoThread ELSE writer

InitSeed ==
    /\ pc = "call"
    /\ fn = "ensure_db"
    /\ args = <<>>
    /\ ties = NoTies
    /\ result = Pending
    /\ kept = None
    /\ db = EmptyDb
    /\ writer = NoThread
    /\ threads = [t \in Threads |-> AtRequest]
    /\ db_initialized = FALSE
    /\ unique_name \in BOOLEAN

\* if not hasattr(app, "_db_initialized")
EnsureDb(t) ==
    /\ threads[t].at = "request"
    /\ Goto(t, IF db_initialized THEN "served" ELSE "init_db", 0, EmptyDb)
    /\ UNCHANGED <<db, writer, db_initialized, unique_name>>
    /\ UNCHANGED callVars

\* init_db(): the schema script, which adds no row
InitDb(t) ==
    /\ threads[t].at = "init_db"
    /\ Goto(t, "seed_recipes", 0, EmptyDb)
    /\ UNCHANGED <<db, writer, db_initialized, unique_name>>
    /\ UNCHANGED callVars

\* seed_recipes: SELECT COUNT(*) FROM recipe, return if count > 0
CountRecipes(t) ==
    /\ threads[t].at = "seed_recipes"
    /\ IF Len(Visible(t).recipe) > 0
       THEN Goto(t, "seed_ingredients", 0, EmptyDb)
       ELSE Goto(t, "insert_recipes", 1, EmptyDb)
    /\ UNCHANGED <<db, writer, db_initialized, unique_name>>
    /\ UNCHANGED callVars

\* one pass of "for r in recipes": the recipe row, its steps and its
\* ingredients; the first INSERT takes the write lock
InsertRecipe(t) ==
    /\ threads[t].at = "insert_recipes"
    /\ threads[t].i <= Len(SeedRecipes)
    /\ ~LockedOut(t)
    /\ writer' = t
    /\ LET new == RecipeRows(SeedRecipes[threads[t].i], Visible(t))
       IN  Goto(t, "insert_recipes", threads[t].i + 1,
                [tb \in DOMAIN EmptyDb |-> threads[t].txn[tb] \o new[tb]])
    /\ UNCHANGED <<db, db_initialized, unique_name>>
    /\ UNCHANGED callVars

\* the INSERT waits for the lock and gives up: sqlite3.OperationalError
\* leaves seed_recipes and ensure_db, the request fails
RecipesLocked(t) ==
    /\ threads[t].at = "insert_recipes"
    /\ threads[t].i <= Len(SeedRecipes)
    /\ LockedOut(t)
    /\ Goto(t, "failed", 0, EmptyDb)
    /\ UNCHANGED <<db, writer, db_initialized, unique_name>>
    /\ UNCHANGED callVars

\* db.commit() at the end of seed_recipes, then db.close()
CommitRecipes(t) ==
    /\ threads[t].at = "insert_recipes"
    /\ threads[t].i > Len(SeedRecipes)
    /\ Commit(t)
    /\ Goto(t, "seed_ingredients", 0, EmptyDb)
    /\ UNCHANGED <<db_initialized, unique_name>>
    /\ UNCHANGED callVars

\* seed(): init_db(), SELECT COUNT(*) FROM ingredient, return if count > 0
CountIngredients(t) ==
    /\ threads[t].at = "seed_ingredients"
    /\ IF Len(Visible(t).ingredient) > 0
       THEN Goto(t, "set_flag", 0, EmptyDb)
       ELSE Goto(t, "insert_ingredients", 1, EmptyDb)
    /\ UNCHANGED <<db, writer, db_initialized, unique_name>>
    /\ UNCHANGED callVars

\* the INSERT of the row is refused: the file is locked by another
\* connection, or the name is taken and the table wants it unique
Refused(t, name) ==
    \/ LockedOut(t)
    \/ unique_name /\ \E k \in 1..Len(Visible(t).ingredient) :
                          Visible(t).ingredient[k].name = name

\* one pass of "for ing in parse_html(HTML_PATH)": the INSERT succeeds
InsertIngredient(t) ==
    /\ threads[t].at = "insert_ingredients"
    /\ threads[t].i <= Len(SeedChart)
    /\ ~Refused(t, SeedChart[threads[t].i].name)
    /\ writer' = t
    /\ Goto(t, "insert_ingredients", threads[t].i + 1,
            [threads[t].txn EXCEPT
                !.ingredient = Append(@, SeedChart[threads[t].i])])
    /\ UNCHANGED <<db, db_initialized, unique_name>>
    /\ UNCHANGED callVars

\* one pass of the loop: the INSERT raises, "except Exception" skips the row
SkipIngredient(t) ==
    /\ threads[t].at = "insert_ingredients"
    /\ threads[t].i <= Len(SeedChart)
    /\ Refused(t, SeedChart[threads[t].i].name)
    /\ Goto(t, "insert_ingredients", threads[t].i + 1, threads[t].txn)
    /\ UNCHANGED <<db, writer, db_initialized, unique_name>>
    /\ UNCHANGED callVars

\* db.commit() at the end of seed, then db.close()
CommitIngredients(t) ==
    /\ threads[t].at = "insert_ingredients"
    /\ threads[t].i > Len(SeedChart)
    /\ Commit(t)
    /\ Goto(t, "set_flag", 0, EmptyDb)
    /\ UNCHANGED <<db_initialized, unique_name>>
    /\ UNCHANGED callVars

\* app._db_initialized = True
SetInitialized(t) ==
    /\ threads[t].at = "set_flag"
    /\ db_initialized' = TRUE
    /\ Goto(t, "served", 0, EmptyDb)
    /\ UNCHANGED <<db, writer, unique_name>>
    /\ UNCHANGED callVars

\* the thread takes the next request
NextRequest(t) ==
    /\ threads[t].at \in {"served", "failed"}
    /\ Goto(t, "request", 0, EmptyDb)
    /\ UNCHANGED <<db, writer, db_initialized, unique_name>>
    /\ UNCHANGED callVars

NextSeed ==
    \E t \in Threads :
        \/ EnsureDb(t)
        \/ InitDb(t)
        \/ CountRecipes(t)
        \/ InsertRecipe(t)
        \/ RecipesLocked(t)
        \/ CommitRecipes(t)
        \/ CountIngredients(t)
        \/ InsertIngredient(t)
        \/ SkipIngredient(t)
        \/ CommitIngredients(t)
        \/ SetInitialized(t)
        \/ NextRequest(t)

SpecSeed == InitSeed /\ [][NextSeed]_vars

(***************************************************************************)
(* The shopping list: api_shopping_list                                    *)
(***************************************************************************)
\* the code-point order of the lower-case letters
LetterOrder ==
    <<"a", "b", "c", "d", "e", "f", "g", "h", "i", "j", "k", "l", "m",
      "n", "o", "p", "q", "r", "s", "t", "u", "v", "w", "x", "y", "z">>
Ord(c) == CHOOSE k \in 1..Len(LetterOrder) : LetterOrder[k] = c

\* a < b for two str of lower-case letters
StrLess(a, b) ==
    \E k \in 1..(Len(a) + 1) :
        /\ k <= Len(b)
        /\ \A j \in 1..(k - 1) : a[j] = b[j]
        /\ k <= Len(a) => Ord(a[k]) < Ord(b[k])

\* bool(x) of a number read from the database: NULL and 0 are falsy
Truthy(x) == x # None /\ x.val.n # 0

\* a row of recipe_ingredient with the columns LEFT JOIN ingredient adds
Joined(row) ==
    LET linked == row.ingredient_id # None
                    /\ row.ingredient_id.val \in 1..Len(db.ingredient)
        i == db.ingredient[row.ingredient_id.val]
    IN  [name |-> row.name, amount |-> row.amount, unit |-> row.unit,
         grams_per_cup |-> IF linked THEN i.grams_per_cup ELSE None,
         unit_type |-> IF linked THEN i.unit_type ELSE None,
         avg_weight_grams |-> IF linked THEN i.avg_weight_grams ELSE None]

\* get_recipe_ingredients(db, recipe_id): the rows of the recipe, joined,
\* ORDER BY sort_order
get_recipe_ingredients(recipe_id) ==
    LET rows == SelectSeq(db.recipe_ingredient, LAMBDA r : r.recipe_id = recipe_id)
        Rank(k) == Cardinality({j \in 1..Len(rows) :
                                    rows[j].sort_order < rows[k].sort_order}) + 1
    IN  [n \in 1..Len(rows) |->
            Joined(rows[CHOOSE k \in 1..Len(rows) : Rank(k) = n])]

\* one pass of "for ing in ingredients": merged is the dict in insertion
\* order, keyed by the lower-cased name
AddIngredient(merged, ing, qty) ==
    LET key  == Lower(ing.name)
        at   == {k \in 1..Len(merged) : merged[k].key = key}
        more == RMul(ing.amount, RInt(qty))
    IN  IF at = {}
        THEN Append(merged,
                [key |-> key, name |-> ing.name, amount |-> more,
                 unit |-> ing.unit, grams_per_cup |-> ing.grams_per_cup,
                 unit_type |-> ing.unit_type,
                 avg_weight_grams |-> ing.avg_weight_grams])
        ELSE [merged EXCEPT ![CHOOSE k \in at : TRUE].amount = RAdd(@, more)]

RECURSIVE AddIngredients(_, _, _)
AddIngredients(merged, ingredients, qty) ==
    IF Len(ingredients) = 0 THEN merged
    ELSE Assign(AddIngredient(merged, Head(ingredients), qty), LAMBDA m :
            AddIngredients(m, Tail(ingredients), qty))

\* "for recipe_id_str, qty in plan.items()": plan is the JSON object in the
\* order of its keys
RECURSIVE Merge(_, _)
Merge(merged, plan) ==
    IF Len(plan) = 0 THEN merged
    ELSE Assign(
            IF Head(plan).qty <= 0 THEN merged
            ELSE AddIngredients(merged,
                    get_recipe_ingredients(IntOf(Head(plan).recipe_id_str)),
                    Head(plan).qty),
            LAMBDA m : Merge(m, Tail(plan)))

\* f"{format_amount(item['amount'])} {item['unit']}"
AmountAndUnit(amount, unit, offs) ==
    format_amount(Float(amount), offs).s \o <<" ">> \o unit

\* f"{grams} g" of an int
GramsText(grams) == StrOfInt(grams) \o <<" ", "g">>

\* the display of a merged item
Display(item, unit_mode, offs) ==
    IF unit_mode = "weight"
    THEN IF item.unit_type = Str(count) /\ Truthy(item.avg_weight_grams)
         THEN GramsText(Round(RMul(item.amount, item.avg_weight_grams.val), offs[2]))
         ELSE IF Truthy(item.grams_per_cup)
         THEN Assign(to_weight(Float(item.amount), Str(item.unit),
                               item.grams_per_cup, offs[2]),
                     LAMBDA grams :
                        IF grams # None THEN GramsText(grams.val.n)
                        ELSE AmountAndUnit(item.amount, item.unit, offs))
         ELSE AmountAndUnit(item.amount, item.unit, offs)
    ELSE AmountAndUnit(item.amount, item.unit, offs)

\* sorted(merged.values(), key=lambda x: x["name"].lower()): the keys of the
\* dict are these lower-cased names, all different
SortedByName(merged) ==
    LET Rank(k) == Cardinality({j \in 1..Len(merged) :
                                    StrLess(merged[j].key, merged[k].key)}) + 1
    IN  [n \in 1..Len(merged) |-> merged[CHOOSE k \in 1..Len(merged) : Rank(k) = n]]

\* jsonify({"items": items})
Json(items) == [tag |-> "json", items |-> items]

api_shopping_list(plan, unit_mode, offs) ==
    Assign(SortedByName(Merge(<<>>, plan)), LAMBDA merged :
        Json([n \in 1..Len(merged) |->
                [name |-> merged[n].name,
                 display |-> Display(merged[n], unit_mode, offs)]]))

\* the rows a recipe can hold for one ingredient; ingredient_id is what
\* get_ingredient_by_name gave when the row was written, or NULL
IngredientTable ==
    << IngredientRow(flour, Float(RInt(120)), Str(volume), None),
       IngredientRow(egg, None, Str(count), Float(RInt(50))) >>
RecipeIngredientRows(recipe_id, sort_order) ==
    {[recipe_id |-> recipe_id,
      ingredient_id |-> IF linked THEN IngredientId(IngredientTable, n) ELSE None,
      name |-> n, amount |-> a, unit |-> u, sort_order |-> sort_order] :
        n \in {flour, Flour, egg}, a \in {RInt(1), Rat(3, 2)}, u \in {cup, tbsp},
        linked \in BOOLEAN}

\* databases with two recipes: the first with one ingredient, the second
\* with two
ShoppingDbs ==
    {[recipe |-> << [id |-> 1, title |-> "bread"], [id |-> 2, title |-> "cake"] >>,
      recipe_step |-> <<>>,
      recipe_ingredient |->
        << a, b,
           [recipe_id |-> 2, ingredient_id |-> None, name |-> salt,
            amount |-> RInt(1), unit |-> tsp, sort_order |-> 0] >>,
      ingredient |-> IngredientTable] :
        a \in RecipeIngredientRows(1, 0), b \in RecipeIngredientRows(2, 1)}

\* the plans: JSON objects of at most MaxPlan keys, each a recipe id with a
\* quantity from -1 to MaxQty
MaxPlan == 2
MaxQty == 2
PlanKeys == {<<"1">>, <<"2">>}
Plans ==
    {pl \in SeqsUpTo([recipe_id_str : PlanKeys, qty : -1..MaxQty], MaxPlan) :
        \A i, j \in 1..Len(pl) : i # j => pl[i].recipe_id_str # pl[j].recipe_id_str}

InitShopping ==
    /\ pc = "call"
    /\ fn = "api_shopping_list"
    /\ args \in Plans \X {"volume", "weight"}
    /\ ties = NoTies
    /\ result = Pending
    /\ kept = None
    /\ db \in ShoppingDbs
    /\ writer = NoThread
    /\ threads = [t \in Threads |-> AtRequest]
    /\ db_initialized = TRUE
    /\ unique_name = FALSE

ShoppingListCall ==
    /\ pc = "call"
    /\ fn = "api_shopping_list"
    /\ result' = api_shopping_list(args[1], args[2], ties)
    /\ pc' = "done"
    /\ UNCHANGED <<fn, args, ties, kept>>
    /\ UNCHANGED serverVars

NextShopping == ShoppingListCall

SpecShopping == InitShopping /\ [][NextShopping]_vars

\* any call of the module
Init ==
    \/ InitFraction \/ InitRange \/ InitFormat \/ InitWeight \/ InitVolume
    \/ InitSeed \/ InitShopping

Next == \/ ParseFractionCall
        \/ ParseRangeCall
        \/ FormatAmountCall
        \/ ToWeightCall
        \/ NormalizeCall
        \/ ApplyDensity
        \/ ParseVolumeTextCall
        \/ NextSeed
        \/ ShoppingListCall

Spec == Init /\ [][Next]_vars

(***************************************************************************)
(* Claims about parse_fraction                                             *)
(***************************************************************************)
Done(f) == pc = "done" /\ fn = f

IsInteger(s) == Len(s) > 0 /\ \A i \in 1..Len(s) : s[i] \in DIGIT

\* the first glyph of the table that occurs in t
FirstGlyph(t) ==
    CHOOSE i \in 1..Len(UNICODE_FRACTIONS) :
        /\ Contains(t, UNICODE_FRACTIONS[i][1])
        /\ \A j \in 1..(i - 1) : ~Contains(t, UNICODE_FRACTIONS[j][1])

HasGlyph(t) == \E i \in 1..Len(t) : t[i] \in Glyphs

\* t is "<int>/<int>" or "<int> <int>/<int>" with a denominator of value 0
ZeroDenominator(t) ==
    \E sl \in 1..Len(t) :
        /\ t[sl] = "/"
        /\ IsInteger(Slice(t, sl + 1, Len(t)))
        /\ IntOf(Slice(t, sl + 1, Len(t))) = 0
        /\ \/ IsInteger(Slice(t, 1, sl - 1))
           \/ \E a \in 1..(sl - 1), b \in 1..(sl - 1) :
                /\ a < b
                /\ IsInteger(Slice(t, 1, a))
                /\ \A i \in (a + 1)..(b - 1) : t[i] \in SPACE
                /\ b - a >= 2
                /\ IsInteger(Slice(t, b, sl - 1))

\* C2: a zero denominator is unparsable, not an arithmetic error:
\* parse_fraction("a/0") and parse_fraction("w a/0") return None.
C2_ZeroDenominatorIsNone ==
    (Done("parse_fraction") /\ ZeroDenominator(Strip(args[1])))
        => result = None

\* the text left once its (first) glyph is removed is neither empty nor a number
GlyphWithJunk(t) ==
    /\ HasGlyph(t)
    /\ LET rest == Strip(Remove(t, UNICODE_FRACTIONS[FirstGlyph(t)][1]))
       IN  rest # <<>> /\ IsRaised(FloatOf(rest))

\* C3: a text with a glyph whose remaining text is non-empty and not a
\* number is unparsable: parse_fraction returns None and does not raise.
C3_GlyphJunkIsNone ==
    (Done("parse_fraction") /\ GlyphWithJunk(Strip(args[1])))
        => result = None

\* The four ordered rules of the specification, for a trimmed text t.
\* Rule 1: a glyph is present; the rest is an integer whole part (0 if empty).
Rule1(t) ==
    LET g    == UNICODE_FRACTIONS[FirstGlyph(t)]
        rest == Strip(Remove(t, g[1]))
    IN  IF rest = <<>> THEN Float(g[2])
        ELSE IF IsInteger(rest) THEN Float(RAdd(RInt(IntOf(rest)), g[2]))
        ELSE None

\* the places (a, b, sl) that split t as <int> spaces <int> "/" <int>
MixedSplits(t) ==
    {p \in (1..Len(t)) \X (1..Len(t)) \X (1..Len(t)) :
        /\ p[1] < p[2] - 1 /\ p[2] <= p[3] - 1 /\ p[3] < Len(t)
        /\ IsInteger(Slice(t, 1, p[1]))
        /\ \A i \in (p[1] + 1)..(p[2] - 1) : t[i] \in SPACE
        /\ IsInteger(Slice(t, p[2], p[3] - 1))
        /\ t[p[3]] = "/"
        /\ IsInteger(Slice(t, p[3] + 1, Len(t)))}

\* Rule 2: "<int> <int>/<int>" is int + num/den
Rule2(t) ==
    LET p   == CHOOSE q \in MixedSplits(t) : TRUE
        den == IntOf(Slice(t, p[3] + 1, Len(t)))
    IN  IF den = 0 THEN None
        ELSE Float(RAdd(RInt(IntOf(Slice(t, 1, p[1]))),
                        Rat(IntOf(Slice(t, p[2], p[3] - 1)), den)))

SimpleSplits(t) ==
    {sl \in 1..Len(t) : /\ t[sl] = "/"
                        /\ IsInteger(Slice(t, 1, sl - 1))
                        /\ IsInteger(Slice(t, sl + 1, Len(t)))}

\* Rule 3: "<int>/<int>" is num/den
Rule3(t) ==
    LET sl  == CHOOSE q \in SimpleSplits(t) : TRUE
        den == IntOf(Slice(t, sl + 1, Len(t)))
    IN  IF den = 0 THEN None ELSE Float(Rat(IntOf(Slice(t, 1, sl - 1)), den))

\* Rule 4: a plain decimal or integer, else unparsable
Rule4(t) == LET f == FloatOf(t) IN IF IsFloat(f) THEN f ELSE None

FourRules(t) ==
    IF HasGlyph(t) THEN Rule1(t)
    ELSE IF MixedSplits(t) # {} THEN Rule2(t)
    ELSE IF SimpleSplits(t) # {} THEN Rule3(t)
    ELSE Rule4(t)

\* C4: on every trimmed text parse_fraction returns what the four ordered
\* rules give, the first matching rule deciding.
C4_AgreesWithFourRules ==
    (Done("parse_fraction") /\ Strip(args[1]) = args[1])
        => result = FourRules(args[1])

(***************************************************************************)
(* Claims about parse_range                                                *)
(***************************************************************************)
\* the places (i, j) that split t as X spaces "to" spaces Y, X = t[1..i],
\* Y = t[j..], both non-empty and made of digits, ".", "/" and spaces
RangeSplits(t) ==
    {p \in (1..Len(t)) \X (1..Len(t)) :
        /\ \A x \in 1..p[1] : t[x] \in RANGE_CLASS
        /\ \A y \in p[2]..Len(t) : t[y] \in RANGE_CLASS
        /\ \E k \in (p[1] + 2)..(p[2] - 3) :
              /\ HasAt(t, k, <<"t", "o">>)
              /\ \A x \in (p[1] + 1)..(k - 1) : t[x] \in SPACE
              /\ \A y \in (k + 2)..(p[2] - 1) : t[y] \in SPACE}

\* what the claim says parse_range returns for the trimmed text t
RangeRule(t) ==
    IF \E p \in RangeSplits(t) : /\ IsFloat(parse_fraction(Slice(t, 1, p[1])))
                                 /\ IsFloat(parse_fraction(Slice(t, p[2], Len(t))))
    THEN LET p == CHOOSE q \in RangeSplits(t) : TRUE
         IN  Float(Mean(parse_fraction(Slice(t, 1, p[1])).val,
                        parse_fraction(Slice(t, p[2], Len(t))).val))
    ELSE parse_fraction(t)

\* C5: parse_range returns the mean of the two sides when the text is
\* "<fraction-expr> to <fraction-expr>" and both sides parse, and otherwise
\* what parse_fraction returns for the whole text.
C5_MeanOrWholeText ==
    Done("parse_range") => result = RangeRule(Strip(args[1]))

\* a result that is undefined or a number >= 0; a call that raises returns
\* no magnitude
NeverNegative(r) == r = None \/ IsRaised(r) \/ (IsFloat(r) /\ r.val.n >= 0)

\* C12: for every input text the result of parse_fraction and the result of
\* parse_range are undefined or a number >= 0, never a negative number.
C12_MagnitudeNeverNegative ==
    Done("parse_range")
        => NeverNegative(result) /\ NeverNegative(parse_fraction(args[1]))

(***************************************************************************)
(* Claims about format_amount                                              *)
(***************************************************************************)
\* the display fractions whose value is the fractional part of x
GlyphsOf(x) ==
    {i \in 1..Len(DISPLAY_FRACTIONS) :
        DISPLAY_FRACTIONS[i][1] = RSub(x, RInt(RFloor(x)))}

\* C1: for each of the nine glyphs g with value v and every integer n >= 0,
\* format_amount(n + v) is g when n = 0 and "<n> <g>" when n > 0.
C1_GlyphRoundTrip ==
    (Done("format_amount") /\ args[1] # None)
        => \A i \in GlyphsOf(args[1].val) :
              LET n == RFloor(args[1].val)
                  g == DISPLAY_FRACTIONS[i][2]
              IN  result = Str(IF n = 0 THEN <<g>> ELSE StrOfNat(n) \o <<" ", g>>)

EndsWith(s, w) == Len(s) >= Len(w) /\ HasAt(s, Len(s) - Len(w) + 1, w)

\* C10: format_amount never renders a trailing ".0": None gives the empty
\* string, an integral value a bare integer, and no output ends in ".0".
C10_NoTrailingPointZero ==
    Done("format_amount")
        => /\ args[1] = None => result = Str(<<>>)
           /\ (args[1] # None /\ RIsInt(args[1].val))
                => result = Str(StrOfNat(args[1].val.n))
           /\ ~EndsWith(result.s, <<".", "0">>)

\* the display fractions strictly within 0.05 of the remainder r
WithinOf(r) ==
    {i \in 1..Len(DISPLAY_FRACTIONS) :
        RLt(RAbs(RSub(r, DISPLAY_FRACTIONS[i][1])), Tolerance)}

\* C11: no remainder r in (0, 1) is within 0.05 of two different display
\* fractions, so the glyph format_amount shows is the only one within
\* tolerance of r.
C11_ToleranceUnambiguous ==
    (Done("format_amount") /\ args[1] # None /\ ~RIsInt(args[1].val))
        => LET base == RFloor(args[1].val)
               near == WithinOf(RSub(args[1].val, RInt(base)))
           IN  /\ Cardinality(near) <= 1
               /\ \A i \in near :
                     result = Str(GlyphText(base, DISPLAY_FRACTIONS[i][2]))

(***************************************************************************)
(* Claims about to_weight and normalize_to_grams_per_cup                   *)
(***************************************************************************)
VolumeUnitNames ==
    {cup, cups, tbsp, tablespoon, tablespoons, tsp, teaspoon, teaspoons}

\* the unit, compared case-insensitively, is one of the volume units
Recognized(unit) == unit # None /\ Lower(unit.s) \in VolumeUnitNames

\* cups per unit: 1, 1/16, 1/48
CupsPerUnit(unit) ==
    LET u == Lower(unit.s)
    IN  IF u \in {cup, cups} THEN Rat(1, 1)
        ELSE IF u \in {tbsp, tablespoon, tablespoons} THEN Rat(1, 16)
        ELSE Rat(1, 48)

\* r is a whole number nearest to x
NearestWhole(r, x) == RIsInt(r) /\ RLe(RAbs(RSub(r, x)), Rat(1, 2))

\* C6: to_weight returns None when the amount or the density is absent or
\* the unit, compared case-insensitively, is not a volume unit; otherwise
\* amount x cups_per_unit(unit) x grams_per_cup rounded to the nearest whole
\* gram.
C6_ToWeightContract ==
    Done("to_weight")
        => IF args[1] = None \/ args[3] = None \/ ~Recognized(args[2])
           THEN result = None
           ELSE /\ IsFloat(result)
                /\ NearestWhole(result.val,
                      RMul(RMul(args[1].val, CupsPerUnit(args[2])), args[3].val))

\* to_weight(2, "tbsp", 120) = 15
C6_Witness ==
    /\ Done("to_weight")
    /\ args = <<Float(RInt(2)), Str(tbsp), Float(RInt(120))>>
    /\ result = Float(RInt(15))

\* C13: for every amount and every recognized volume unit, to_weight returns
\* None when the density is present but not positive (grams_per_cup <= 0).
C13_NonPositiveDensityIsNone ==
    (/\ Done("to_weight")
     /\ args[1] # None
     /\ Recognized(args[2])
     /\ args[3] # None
     /\ args[3].val.n <= 0)
        => result = None

\* to_weight has been applied to a measurement (volume, unit, kept grams)
\* with the density normalize_to_grams_per_cup computed from it
RoundTripDone ==
    /\ Done("to_weight")
    /\ kept # None
    /\ args[1] # None
    /\ args[1].val.n > 0
    /\ Recognized(args[2])

\* C7 as stated: to_weight(v, u, normalize_to_grams_per_cup(v, u, g)) = g for
\* every volume v > 0, recognized unit u and whole-gram weight g >= 0.
C7_RoundTripAnyVolume == RoundTripDone => result = kept

\* C7 as amended: the round trip gives back g when the volume is at most 10
\* cups (v x cups_per_unit(u) <= 10).
C7_RoundTripUpToTenCups ==
    (RoundTripDone /\ RLe(RMul(args[1].val, CupsPerUnit(args[2])), RInt(10)))
        => result = kept

\* a round trip within 10 cups whose density was rounded: density x cups is
\* not the weight, and yet the weight comes back
C7_Witness ==
    /\ RoundTripDone
    /\ RLe(RMul(args[1].val, CupsPerUnit(args[2])), RInt(10))
    /\ RMul(RMul(args[1].val, CupsPerUnit(args[2])), args[3].val) # kept.val
    /\ result = kept
    /\ kept.val.n > 0

(***************************************************************************)
(* Claims about parse_volume_text                                          *)
(***************************************************************************)
\* C8: parse_volume_text returns a magnitude and a unit, or neither: never
\* an undefined magnitude together with a defined unit.
C8_BothOrNeither ==
    (Done("parse_volume_text") /\ result.tag = "pair")
        => (result.amt = None <=> result.unit = None)

\* the first parenthetical clause of t that mentions "cup": its text
CupClauses(t) ==
    {p \in 1..Len(t) :
        /\ t[p] = "("
        /\ Find(t, p + 1, ")") <= Len(t)
        /\ \E c \in (p + 1)..(Find(t, p + 1, ")") - 3) : HasAtIgnoreCase(t, c, cup)}
CupClause(t) ==
    LET p == CHOOSE x \in CupClauses(t) : \A y \in CupClauses(t) : x <= y
    IN  Strip(Slice(t, p + 1, Find(t, p + 1, ")") - 1))

\* the clause begins with the amount clause[1..i], which parse_fraction can
\* parse, followed by "cup"
AmountThenCup(clause, i) ==
    /\ IsFloat(parse_fraction(Slice(clause, 1, i)))
    /\ HasAtIgnoreCase(clause, i + 1 + Span(clause, i + 1, SPACE), cup)

\* C9: when the text has a parenthetical clause that mentions "cup" and
\* begins with a parseable amount followed by "cup", the result is that
\* amount in cups, whatever the form of the amount (decimals included).
C9_PrefersParentheticalCup ==
    (Done("parse_volume_text") /\ CupClauses(Strip(Remove(args[1], SHY))) # {})
        => LET clause == CupClause(Strip(Remove(args[1], SHY)))
           IN  \A i \in 1..Len(clause) :
                  AmountThenCup(clause, i)
                    => result = Pair(parse_fraction(Slice(clause, 1, i)), Str(cup))

(***************************************************************************)
(* Claims about the first request                                          *)
(***************************************************************************)
\* C14: under any interleaving of request threads running ensure_db, every
\* recipe of the seed file and every row of the seed chart is in the
\* database at most once.
C14_SeededAtMostOnce ==
    /\ \A k \in 1..Len(SeedRecipes) :
          Cardinality({j \in 1..Len(db.recipe) :
                          db.recipe[j].title = SeedRecipes[k].title}) <= 1
    /\ \A k \in 1..Len(SeedChart) :
          Cardinality({j \in 1..Len(db.ingredient) :
                          db.ingredient[j].name = SeedChart[k].name}) <= 1

(***************************************************************************)
(* Claims about the shopping list                                          *)
(***************************************************************************)
\* the occurrences of ingredients in the planned recipes with qty > 0, as
\* <<position in the plan, row of recipe_ingredient>>
Occurrences ==
    {o \in (1..Len(args[1])) \X (1..Len(db.recipe_ingredient)) :
        /\ args[1][o[1]].qty > 0
        /\ db.recipe_ingredient[o[2]].recipe_id = IntOf(args[1][o[1]].recipe_id_str)}

\* the occurrences of the ingredient name key, compared without case
OccurrencesOf(key) ==
    {o \in Occurrences : Lower(db.recipe_ingredient[o[2]].name) = key}

\* the sum of amount x qty over a set of occurrences
RECURSIVE TotalOf(_)
TotalOf(os) ==
    IF os = {} THEN RInt(0)
    ELSE LET o == CHOOSE x \in os : TRUE
         IN  RAdd(RMul(db.recipe_ingredient[o[2]].amount, RInt(args[1][o[1]].qty)),
                  TotalOf(os \ {o}))

\* the text of an entry whose amount is the sum over the occurrences of key
\* recorded in unit u
LikeWithLike(key, u) ==
    AmountAndUnit(TotalOf({o \in OccurrencesOf(key) :
                              db.recipe_ingredient[o[2]].unit = u}), u, NoTies)

\* C15: in the shopping list shown by volume, the entry of an ingredient name
\* shows a unit and the sum of amount x qty over exactly the occurrences
\* recorded in that unit, in recipes with qty > 0; amounts in different
\* units are never added into one total.
C15_SumsLikeWithLike ==
    (Done("api_shopping_list") /\ args[2] = "volume")
        => \A n \in 1..Len(result.items) :
              LET key == Lower(result.items[n].name)
              IN  \E o \in OccurrencesOf(key) :
                     result.items[n].display =
                        LikeWithLike(key, db.recipe_ingredient[o[2]].unit)

====
